---------------------------- MODULE Spec2Model ----------------------------
(***************************************************************************)
(* The concurrent engine of AShareCrawler (src/src/ashare_crawler.py):     *)
(* the priority queue of tasks, the crawler threads that drain it          *)
(* (do_task), the writer thread (write_result), the registry of live       *)
(* crawlers (queues.other), the progress bar counters (pbar.total, pbar.n) *)
(* and the thread pool of assign_tasks.                                    *)
(*                                                                         *)
(* Every blocking get(timeout=..) raises Empty only when its queue is      *)
(* empty; how long a thread waits is not modelled, so a timeout may fire   *)
(* at any moment at which the queue is empty.                              *)
(***************************************************************************)
EXTENDS Integers, Sequences, FiniteSets, TLC

\* ---- bounds of the model ------------------------------------------------
NumCrawler == 2      \* num_crawler, the argument of assign_tasks
MaxRetry == 2        \* largest max_retry given to assign_tasks
MaxPages == 1        \* largest number of non-empty pages of the listing
MaxItems == 2        \* largest number of stock codes on one page

\* ---- constants of the program -------------------------------------------
ItemPrior == 0       \* priority of a get_stock task        (line 100)
PagePrior == 1       \* priority of a next-page task        (line 104)
RetryPenalty == 2    \* prior += 2                          (line 85)

Crawlers == 1..NumCrawler

VARIABLES
    listing,    \* input: the remote listing, listing[p+1] = stock count of page p
    max_retry,  \* input: the max_retry argument of assign_tasks
    sched,      \* assign_tasks: "new", "running" (inside the with block), "reported"
    crawlerQ,   \* queues.crawler, the [prior, task] items in the order they were put
    writerQ,    \* queues.writer, FIFO of (result, save_fp)
    other,      \* queues.other, the thread ids of the registered crawlers
    total,      \* pbar.total
    completed,  \* pbar.n
    pc,         \* where each crawler thread is in do_task
    cur,        \* the [prior, task] a crawler holds (prior, task of line 68)
    pending,    \* the stock codes of `result` a crawler has still to put (line 98)
    wpc,        \* where the writer thread is in write_result
    execs,      \* history: how often task.func was called for a task
    fate,       \* history: the last thing that happened to a task
    made,       \* history: how many task objects were created for a task
    seen        \* history: queues.crawler as a crawler's last get found it

vars == <<listing, max_retry, sched, crawlerQ, writerQ, other, total, completed,
          pc, cur, pending, wpc, execs, fate, made, seen>>

\* ---- tasks --------------------------------------------------------------
None == "None"
NoTask == [prior |-> -1, task |-> None]

\* each_task(func, args, tries) of src.utils: a mutable record
each_task(func, args, tries) == [func |-> func, args |-> args, tries |-> tries]

\* '{}.{}'.format(each['f13'], each['f12']): market, then code (line 201)
StockId(p, j) == <<p % 2, p * MaxItems + j>>

\* task.args[0][2:]: the stock id without its market prefix (line 108)
SavePath(stk_id) == Tail(stk_id)

Pages == 0..MaxPages
AllIds == {StockId(p, j) : p \in 0..(MaxPages - 1), j \in 1..MaxItems}
Keys == {<<"get_list", p>> : p \in Pages} \cup {<<"get_stock", s>> : s \in AllIds}
Key(task) == <<task.func, task.args[1]>>
KeyOfPath(fp) == CHOOSE k \in Keys : k[1] = "get_stock" /\ SavePath(k[2]) = fp

Listings == UNION {[1..n -> 1..MaxItems] : n \in 0..MaxPages}

\* what get_list returns for a page when the request succeeds (lines 197-205)
PageItems(p) ==
    IF p < Len(listing) THEN [j \in 1..listing[p + 1] |-> StockId(p, j)] ELSE <<>>

\* number of stock codes of the whole listing
ListingSize == LET RECURSIVE Sum(_)
                   Sum(n) == IF n = 0 THEN 0 ELSE listing[n] + Sum(n - 1)
               IN Sum(Len(listing))

\* ---- the priority queue -------------------------------------------------
\* a get that leaves the item in the queue
KeepAt(q, k) == q

RemoveAt(q, k) == [n \in 1..(Len(q) - 1) |-> IF n < k THEN q[n] ELSE q[n + 1]]

\* a queue that ignores the priority
AnyIndices(q) == 1..Len(q)

\* a queue that returns the newest item
NewestIndex(q) == {Len(q)}

\* PriorityQueue.get returns a least item. Items are [prior, task] lists, so
\* the priority decides first; between equal priorities the comparison of
\* the task objects decides, never the order of the puts.
LeastIndices(q) == {k \in 1..Len(q) : \A n \in 1..Len(q) : q[k].prior <= q[n].prior}

\* the first of the least items in insertion order
FirstLeast(q) == CHOOSE k \in LeastIndices(q) : \A n \in LeastIndices(q) : k <= n

\* ---- the progress bar and the registry --------------------------------
\* a page counted as one item
AddExpectedOne(t, n) == t + 1

\* line 95: self.pbar.total += len(result)
AddExpected(t, n) == t + n

\* the decrement left out
MarkNoDataForgotten(t) == t

\* line 135: self.pbar.total -= 1
MarkNoData(t) == t - 1

\* the update left out
MarkWrittenForgotten(c) == c

\* line 140: self.pbar.update(1)
MarkWritten(c) == c + 1

\* line 62: self.queues.other.put(thread_id)
Register(reg, i) == Append(reg, i)

\* the registry left as it is
DeregisterForgotten(reg) == reg

\* line 118: self.queues.other.get()
Deregister(reg) == Tail(reg)

\* line 143: self.queues.other.empty()
AllCrawlersStopped == other = <<>>

\* ---- initial state ------------------------------------------------------
Init ==
    /\ listing \in Listings
    /\ max_retry \in 1..MaxRetry
    /\ sched = "new"
    /\ crawlerQ = <<>>
    /\ writerQ = <<>>
    /\ other = <<>>
    /\ total = 0
    /\ completed = 0
    /\ pc = [i \in Crawlers |-> "idle"]
    /\ cur = [i \in Crawlers |-> NoTask]
    /\ pending = [i \in Crawlers |-> <<>>]
    /\ wpc = "idle"
    /\ execs = [k \in Keys |-> 0]
    /\ fate = [k \in Keys |-> "new"]
    /\ made = [k \in Keys |-> 0]
    /\ seen = [i \in Crawlers |-> <<>>]

\* ---- the scheduler ------------------------------------------------------
\* The first task, as section 4.5 of the specification describes it: the
\* caller puts get_list(0) at priority 1 before the pool starts.
SeedTask == [prior |-> PagePrior, task |-> each_task("get_list", <<0>>, 0)]

SeedQueue ==
    /\ sched = "new"
    /\ crawlerQ = <<>>
    /\ crawlerQ' = <<SeedTask>>
    /\ made' = [made EXCEPT ![Key(SeedTask.task)] = @ + 1]
    /\ UNCHANGED <<listing, max_retry, sched, writerQ, other, total, completed,
                   pc, cur, pending, wpc, execs, fate, seen>>

\* what assign_tasks itself puts on queues.crawler before submitting
AssignSeed == <<>>

\* assign_tasks, lines 46-49: submit num_crawler do_task and one write_result
AssignTasks ==
    /\ sched = "new"
    /\ sched' = "running"
    /\ crawlerQ' = crawlerQ \o AssignSeed
    /\ pc' = [i \in Crawlers |-> "submitted"]
    /\ wpc' = "submitted"
    /\ UNCHANGED <<listing, max_retry, writerQ, other, total, completed,
                   cur, pending, execs, fate, made, seen>>

AllStopped == wpc = "stopped" /\ \A i \in Crawlers : pc[i] = "stopped"

\* assign_tasks, lines 46 and 51-53: the with block ends when every thread
\* has returned; then the counts are logged
Report ==
    /\ sched = "running"
    /\ AllStopped
    /\ sched' = "reported"
    /\ UNCHANGED <<listing, max_retry, crawlerQ, writerQ, other, total, completed,
                   pc, cur, pending, wpc, execs, fate, made, seen>>

\* ---- the crawler threads (do_task) --------------------------------------
\* lines 61-62: register
CrawlerStart(i) ==
    /\ pc[i] = "submitted"
    /\ other' = Register(other, i)
    /\ pc' = [pc EXCEPT ![i] = "get"]
    /\ UNCHANGED <<listing, max_retry, sched, crawlerQ, writerQ, total, completed,
                   cur, pending, wpc, execs, fate, made, seen>>

\* line 68: a successful get
CrawlerGet(i) ==
    /\ pc[i] = "get"
    /\ crawlerQ # <<>>
    /\ \E k \in LeastIndices(crawlerQ) :
        /\ cur' = [cur EXCEPT ![i] = crawlerQ[k]]
        /\ crawlerQ' = RemoveAt(crawlerQ, k)
    /\ seen' = [seen EXCEPT ![i] = crawlerQ]
    /\ pc' = [pc EXCEPT ![i] = "call"]
    /\ UNCHANGED <<listing, max_retry, sched, writerQ, other, total, completed,
                   pending, wpc, execs, fate, made>>

\* a crawler that leaves the loop whatever the queue holds
CrawlerGivesUp(i) ==
    /\ pc[i] = "get"
    /\ pc' = [pc EXCEPT ![i] = "exit"]
    /\ UNCHANGED <<listing, max_retry, sched, crawlerQ, writerQ, other, total,
                   completed, cur, pending, wpc, execs, fate, made, seen>>

\* lines 68, 110-111: the get times out on an empty queue
CrawlerEmpty(i) ==
    /\ pc[i] = "get"
    /\ crawlerQ = <<>>
    /\ pc' = [pc EXCEPT ![i] = "exit"]
    /\ UNCHANGED <<listing, max_retry, sched, crawlerQ, writerQ, other, total,
                   completed, cur, pending, wpc, execs, fate, made, seen>>

\* line 70: task.tries += 1
Tried(task) == [task EXCEPT !.tries = @ + 1]

\* one retry too many
RetryExhaustedLate(task) == task.tries > max_retry

\* line 74: exceeds max retries
RetryExhausted(task) == task.tries >= max_retry

\* the retry put back at the priority it had
RetryItemNoPenalty(prior, task) == [prior |-> prior, task |-> task]

\* lines 85-86: continue with lower priority
RetryItem(prior, task) == [prior |-> prior + RetryPenalty, task |-> task]

\* a get_stock task less urgent than the next page
StockItemAfterPage(stk_id) ==
    [prior |-> PagePrior + 1, task |-> each_task("get_stock", <<stk_id>>, 0)]

\* line 100: one get_stock task for a stock code
StockItem(stk_id) == [prior |-> ItemPrior, task |-> each_task("get_stock", <<stk_id>>, 0)]

\* the same page again
SamePageItem(task) ==
    [prior |-> PagePrior, task |-> each_task("get_list", <<task.args[1]>>, 0)]

\* line 104: the task of the next page
NextPageItem(task) ==
    [prior |-> PagePrior, task |-> each_task("get_list", <<task.args[1] + 1>>, 0)]

\* the check for the last page left out
EndOfPagesMissed(result) == FALSE

\* line 91: end of pages
EndOfPages(result) == result = <<>>

\* line 108: what goes to the writer
PendingResult(result, task) == [result |-> result, save_fp |-> SavePath(task.args[1])]

\* the call counted as a try although it raised
RaisedCounted(task) == [task EXCEPT !.tries = @ + 1]

\* lines 69-70: task.func raises before line 70 is reached
Raised(task) == task

\* lines 69, 113-116: task.func raises; the handler logs the task, which is
\* put nowhere, and the loop goes on
CallRaises(i) ==
    /\ pc[i] = "call"
    /\ execs' = [execs EXCEPT ![Key(cur[i].task)] = @ + 1]
    /\ fate' = [fate EXCEPT ![Key(cur[i].task)] = "raised"]
    /\ cur' = [cur EXCEPT ![i].task = Raised(@)]
    /\ seen' = [seen EXCEPT ![i] = <<>>]
    /\ pc' = [pc EXCEPT ![i] = "get"]
    /\ UNCHANGED <<listing, max_retry, sched, crawlerQ, writerQ, other, total,
                   completed, pending, wpc, made>>

\* lines 69-87: task.func returns None
CallNone(i) ==
    /\ pc[i] = "call"
    /\ LET task == Tried(cur[i].task) IN
        /\ execs' = [execs EXCEPT ![Key(task)] = @ + 1]
        /\ IF RetryExhausted(task)
           THEN /\ crawlerQ' = crawlerQ
                /\ fate' = [fate EXCEPT ![Key(task)] = "exhausted"]
           ELSE /\ crawlerQ' = Append(crawlerQ, RetryItem(cur[i].prior, task))
                /\ fate' = [fate EXCEPT ![Key(task)] = "retry"]
    /\ cur' = [cur EXCEPT ![i] = NoTask]
    /\ seen' = [seen EXCEPT ![i] = <<>>]
    /\ pc' = [pc EXCEPT ![i] = "get"]
    /\ UNCHANGED <<listing, max_retry, sched, writerQ, other, total, completed,
                   pending, wpc, made>>

\* lines 69-70, 89-96: get_list returns a list
CallList(i) ==
    /\ pc[i] = "call"
    /\ cur[i].task.func = "get_list"
    /\ LET task == Tried(cur[i].task)
           result == PageItems(task.args[1]) IN
        /\ execs' = [execs EXCEPT ![Key(task)] = @ + 1]
        /\ IF EndOfPages(result)
           THEN /\ fate' = [fate EXCEPT ![Key(task)] = "end"]
                /\ cur' = [cur EXCEPT ![i] = NoTask]
                /\ seen' = [seen EXCEPT ![i] = <<>>]
                /\ pc' = [pc EXCEPT ![i] = "get"]
                /\ UNCHANGED <<total, pending>>
           ELSE /\ fate' = [fate EXCEPT ![Key(task)] = "expanded"]
                /\ total' = AddExpected(total, Len(result))
                /\ pending' = [pending EXCEPT ![i] = result]
                /\ cur' = [cur EXCEPT ![i].task = task]
                /\ seen' = [seen EXCEPT ![i] = <<>>]
                /\ pc' = [pc EXCEPT ![i] = "put"]
    /\ UNCHANGED <<listing, max_retry, sched, crawlerQ, writerQ, other, completed,
                   wpc, made>>

\* lines 98-104: the puts of the fan-out, one at a time
CrawlerPut(i) ==
    /\ pc[i] = "put"
    /\ LET item == IF pending[i] # <<>> THEN StockItem(Head(pending[i]))
                                         ELSE NextPageItem(cur[i].task) IN
        /\ crawlerQ' = Append(crawlerQ, item)
        /\ made' = [made EXCEPT ![Key(item.task)] = @ + 1]
    /\ IF pending[i] # <<>>
       THEN /\ pending' = [pending EXCEPT ![i] = Tail(@)]
            /\ UNCHANGED <<cur, pc>>
       ELSE /\ cur' = [cur EXCEPT ![i] = NoTask]
            /\ pc' = [pc EXCEPT ![i] = "get"]
            /\ UNCHANGED pending
    /\ UNCHANGED <<listing, max_retry, sched, writerQ, other, total, completed,
                   wpc, execs, fate, seen>>

\* a DataFrame without rows taken for a failure and tried again
CallStockRequeues(i) ==
    /\ pc[i] = "call"
    /\ cur[i].task.func = "get_stock"
    /\ \E result \in {"data", "empty"} :
        LET task == Tried(cur[i].task) IN
        /\ execs' = [execs EXCEPT ![Key(task)] = @ + 1]
        /\ fate' = [fate EXCEPT ![Key(task)] = "sent_" \o result]
        /\ writerQ' = Append(writerQ, PendingResult(result, task))
        /\ crawlerQ' = IF result = "empty"
                       THEN Append(crawlerQ, RetryItem(cur[i].prior, task))
                       ELSE crawlerQ
    /\ cur' = [cur EXCEPT ![i] = NoTask]
    /\ seen' = [seen EXCEPT ![i] = <<>>]
    /\ pc' = [pc EXCEPT ![i] = "get"]
    /\ UNCHANGED <<listing, max_retry, sched, other, total, completed,
                   pending, wpc, made>>

\* lines 69-70, 106-108: get_stock returns a DataFrame, with rows or without
CallStock(i) ==
    /\ pc[i] = "call"
    /\ cur[i].task.func = "get_stock"
    /\ \E result \in {"data", "empty"} :
        LET task == Tried(cur[i].task) IN
        /\ execs' = [execs EXCEPT ![Key(task)] = @ + 1]
        /\ fate' = [fate EXCEPT ![Key(task)] = "sent_" \o result]
        /\ writerQ' = Append(writerQ, PendingResult(result, task))
    /\ cur' = [cur EXCEPT ![i] = NoTask]
    /\ seen' = [seen EXCEPT ![i] = <<>>]
    /\ pc' = [pc EXCEPT ![i] = "get"]
    /\ UNCHANGED <<listing, max_retry, sched, crawlerQ, other, total, completed,
                   pending, wpc, made>>

\* line 118: deregister (the oldest id of the registry leaves, whose ever it is)
CrawlerDeregister(i) ==
    /\ pc[i] = "exit"
    /\ other # <<>>
    /\ other' = Deregister(other)
    /\ pc' = [pc EXCEPT ![i] = "stopped"]
    /\ UNCHANGED <<listing, max_retry, sched, crawlerQ, writerQ, total, completed,
                   cur, pending, wpc, execs, fate, made, seen>>

\* ---- the writer thread (write_result) -----------------------------------
\* lines 125-129
WriterStart ==
    /\ wpc = "submitted"
    /\ wpc' = "get"
    /\ UNCHANGED <<listing, max_retry, sched, crawlerQ, writerQ, other, total,
                   completed, pc, cur, pending, execs, fate, made, seen>>

\* lines 131-136: a result without rows
WriterEmptyResult ==
    /\ wpc = "get"
    /\ writerQ # <<>>
    /\ Head(writerQ).result = "empty"
    /\ writerQ' = Tail(writerQ)
    /\ total' = MarkNoData(total)
    /\ fate' = [fate EXCEPT ![KeyOfPath(Head(writerQ).save_fp)] = "emptied"]
    /\ UNCHANGED <<listing, max_retry, sched, crawlerQ, other, completed, pc, cur,
                   pending, wpc, execs, made, seen>>

\* lines 131, 137-140, 146-147: a result with rows; write returns True or
\* False, or raises
WriterWrite ==
    /\ wpc = "get"
    /\ writerQ # <<>>
    /\ Head(writerQ).result # "empty"
    /\ writerQ' = Tail(writerQ)
    /\ \E written \in {"True", "False", "raise"} :
        /\ completed' = IF written = "True" THEN MarkWritten(completed) ELSE completed
        /\ fate' = [fate EXCEPT ![KeyOfPath(Head(writerQ).save_fp)] =
                       CASE written = "True" -> "written"
                         [] written = "False" -> "persist_failed"
                         [] OTHER -> "writer_raised"]
    /\ UNCHANGED <<listing, max_retry, sched, crawlerQ, other, total, pc, cur,
                   pending, wpc, execs, made, seen>>

\* lines 131, 142: the get times out on an empty queue
WriterEmpty ==
    /\ wpc = "get"
    /\ writerQ = <<>>
    /\ wpc' = "check"
    /\ UNCHANGED <<listing, max_retry, sched, crawlerQ, writerQ, other, total,
                   completed, pc, cur, pending, execs, fate, made, seen>>

\* lines 143-144: stop when no crawler is registered
WriterCheck ==
    /\ wpc = "check"
    /\ wpc' = IF AllCrawlersStopped THEN "stopped" ELSE "get"
    /\ UNCHANGED <<listing, max_retry, sched, crawlerQ, writerQ, other, total,
                   completed, pc, cur, pending, execs, fate, made, seen>>

\* ---- the specification --------------------------------------------------
Crawler(i) ==
    \/ CrawlerStart(i)
    \/ CrawlerGet(i)
    \/ CrawlerEmpty(i)
    \/ CallRaises(i)
    \/ CallNone(i)
    \/ CallList(i)
    \/ CallStock(i)
    \/ CrawlerPut(i)
    \/ CrawlerDeregister(i)

Writer ==
    \/ WriterStart
    \/ WriterEmptyResult
    \/ WriterWrite
    \/ WriterEmpty
    \/ WriterCheck

Next ==
    \/ SeedQueue
    \/ AssignTasks
    \/ Report
    \/ \E i \in Crawlers : Crawler(i)
    \/ Writer

Spec == Init /\ [][Next]_vars


\* the threads run, and a blocked get returns when its timeout ends
LiveSpec ==
    /\ Spec
    /\ WF_vars(AssignTasks)
    /\ WF_vars(Report)
    /\ \A i \in Crawlers : WF_vars(Crawler(i))
    /\ WF_vars(Writer)

\* ---- what the history says ----------------------------------------------
PageKey(p) == <<"get_list", p>>
StockKey(s) == <<"get_stock", s>>
StockKeys == {k \in Keys : k[1] = "get_stock"}

Queued(k) == \E n \in 1..Len(crawlerQ) : Key(crawlerQ[n].task) = k
Executing(k) == \E i \in Crawlers : pc[i] = "call" /\ Key(cur[i].task) = k
Sent(k) == \E n \in 1..Len(writerQ) : writerQ[n].save_fp = SavePath(k[2])
Count(S) == Cardinality(S)
WithFate(f) == {k \in Keys : fate[k] = f}
StocksWithFate(f) == {k \in StockKeys : fate[k] = f}

\* the stock codes of the pages that were expanded
Discovered ==
    LET RECURSIVE Sum(_)
        Sum(n) == IF n = 0 THEN 0
                  ELSE (IF fate[PageKey(n - 1)] = "expanded" THEN listing[n] ELSE 0)
                       + Sum(n - 1)
    IN Sum(Len(listing))

Quiescent == AllStopped /\ crawlerQ = <<>> /\ writerQ = <<>>

\* ---- the claims ---------------------------------------------------------

\* C1: a successful get returns a task whose priority is the smallest of all
\* the priorities in the queue at that moment.
C1_PriorityOrder ==
    \A i \in Crawlers : pc[i] = "call" =>
        \A n \in 1..Len(seen[i]) : cur[i].prior <= seen[i][n].prior

\* a get that passed over a less urgent task that had been put earlier
C1_Witness ==
    \E i \in Crawlers : pc[i] = "call" /\
        \E n, m \in 1..Len(seen[i]) :
            n < m /\ seen[i][m] = cur[i] /\ seen[i][n].prior > cur[i].prior

C3_RetryExhaustion ==
    \A k \in Keys :
        /\ fate[k] = "retry" =>
              /\ execs[k] < max_retry
              /\ Queued(k) \/ Executing(k)
        /\ fate[k] = "exhausted" =>
              /\ execs[k] = max_retry
              /\ ~Queued(k) /\ ~Executing(k)
              /\ k \in StockKeys => ~Sent(k)
        /\ sched = "reported" => fate[k] # "retry"

\* a task that failed more than once and was dropped
C3_Witness ==
    \E k \in Keys : fate[k] = "exhausted" /\ execs[k] = max_retry /\ max_retry > 1

\* a queued task that was never called is as it was created
FreshAsCreated ==
    \A n \in 1..Len(crawlerQ) :
        LET item == crawlerQ[n] IN
        execs[Key(item.task)] = 0 =>
            /\ item.task.tries = 0
            /\ item.prior = IF item.task.func = "get_stock" THEN 0 ELSE 1

\* C4: once get_list has returned K > 0 stock codes for page p, total holds
\* the K codes, completed holds only what was written, the page-p task is not
\* queued again, and the puts that follow create one get_stock task per code
\* (priority 0, tries 0) and then one get_list task for page p+1 (priority 1,
\* tries 0), each exactly once.
C4_FanOut ==
    /\ total = Discovered - Count(WithFate("emptied"))
    /\ completed = Count(WithFate("written"))
    /\ FreshAsCreated
    /\ \A k \in Keys : made[k] <= 1
    /\ \A p \in Pages : fate[PageKey(p)] = "expanded" =>
        LET items == PageItems(p)
            putting == {i \in Crawlers : pc[i] = "put" /\ cur[i].task.args[1] = p}
        IN
        /\ items # <<>>
        /\ ~Queued(PageKey(p))
        /\ \A i \in putting : \A j \in 1..Len(items) :
              made[StockKey(items[j])] = IF j <= Len(items) - Len(pending[i]) THEN 1 ELSE 0
        /\ \A i \in putting : made[PageKey(p + 1)] = 0
        /\ putting = {} =>
              /\ \A j \in 1..Len(items) : made[StockKey(items[j])] = 1
              /\ made[PageKey(p + 1)] = 1

\* a page of two stock codes whose fan-out is complete
C4_Witness ==
    \E p \in Pages :
        /\ fate[PageKey(p)] = "expanded"
        /\ Len(PageItems(p)) = 2
        /\ \A i \in Crawlers : pc[i] # "put"
        /\ total = 2
        /\ made[PageKey(p + 1)] = 1

\* C5: when get_list returns an empty list, that step puts nothing on either
\* queue, creates no task, leaves total and completed as they were, and the
\* crawler goes on to its next get.
C5_EndOfListing ==
    [][\A i \in Crawlers :
        ( /\ pc[i] = "call"
          /\ pc'[i] # "call"
          /\ cur[i].task.func = "get_list"
          /\ PageItems(cur[i].task.args[1]) = <<>>
          /\ fate'[Key(cur[i].task)] \notin {"retry", "exhausted", "raised"} )
        => /\ crawlerQ' = crawlerQ
           /\ writerQ' = writerQ
           /\ made' = made
           /\ total' = total
           /\ completed' = completed
           /\ pc'[i] = "get"]_vars

\* the page after the last one was listed and nothing came of it
C5_Witness ==
    \E p \in Pages :
        /\ p > 0
        /\ fate[PageKey(p)] = "end"
        /\ \A q \in Pages : q > p => made[PageKey(q)] = 0
        /\ ~Queued(PageKey(p))
        /\ crawlerQ = <<>>

\* C6 as claimed: at quiescence completed <= total, and total - completed is
\* the number of empty results, failed writes and get_stock tasks dropped
\* after their last retry.
C6_AccountingAsClaimed ==
    Quiescent =>
        /\ completed <= total
        /\ total - completed = Count(StocksWithFate("emptied"))
                               + Count(StocksWithFate("persist_failed"))
                               + Count(StocksWithFate("exhausted"))

\* C6 as amended: at quiescence completed <= total, and total - completed is
\* the number of failed writes, of get_stock tasks dropped after their last
\* retry, and of get_stock tasks and results lost to an exception; an empty
\* result is no part of it, the writer has taken it out of total.
C6_Accounting ==
    Quiescent =>
        /\ completed <= total
        /\ total - completed = Count(StocksWithFate("persist_failed"))
                               + Count(StocksWithFate("exhausted"))
                               + Count(StocksWithFate("raised"))
                               + Count(StocksWithFate("writer_raised"))

\* quiescence after one empty result and one failed write
C6_Witness ==
    /\ Quiescent
    /\ Count(StocksWithFate("emptied")) = 1
    /\ Count(StocksWithFate("persist_failed")) = 1
    /\ total = 1
    /\ completed = 0

\* C7: with a finite listing and bounded retries, when the threads keep
\* running, every crawler and the writer stop, and assign_tasks leaves its
\* with block and logs the counts.
C7_Termination == <>(sched = "reported" /\ AllStopped)

\* a crawl that listed its pages, wrote a stock and ended
C7_Witness ==
    /\ sched = "reported"
    /\ AllStopped
    /\ fate[PageKey(1)] = "end"
    /\ Count(StocksWithFate("written")) >= 1

NoFailure ==
    \A k \in Keys : fate[k] \notin {"retry", "exhausted", "raised", "sent_empty",
                                    "emptied", "persist_failed", "writer_raised"}

\* C8: a run in which no call returns None or raises, every get_stock returns
\* rows and every write succeeds ends with total = completed = the number of
\* stock codes of the listing, both queues empty and every thread stopped.
C8_AllSuccess ==
    (sched = "reported" /\ NoFailure) =>
        /\ total = ListingSize
        /\ completed = ListingSize
        /\ crawlerQ = <<>>
        /\ writerQ = <<>>
        /\ AllStopped

\* C9: when assign_tasks has submitted the threads and no crawler has started,
\* the queue holds exactly the get_list task of page 0, tries 0, at priority 1.
C9_SchedulerSeeds ==
    (sched = "running" /\ \A i \in Crawlers : pc[i] = "submitted") =>
        crawlerQ = <<SeedTask>>

\* C10: the writer is stopped only when every crawler is, the crawlers that
\* were submitted and have still to start included.
C10_WriterOutlivesCrawlers ==
    wpc = "stopped" => \A i \in Crawlers : pc[i] = "stopped"

\* C11: the writer is never stopped while a result is on queues.writer, so
\* every result a crawler puts is taken by the writer.
C11_NoLostResults == wpc = "stopped" => writerQ = <<>>

KeyCount(k) == Count({n \in 1..Len(crawlerQ) : Key(crawlerQ[n].task) = k})

\* C12: a task that returned None with retries left is in the queue once, two
\* priorities further back for every call made; so every queued task has
\* priority = first priority + 2 * tries, tries = the number of calls made
\* (it never goes down) and tries < max_retry.
C12_SoftBackoff ==
    /\ \A n \in 1..Len(crawlerQ) :
        LET item == crawlerQ[n] IN
        /\ item.prior = (IF item.task.func = "get_stock" THEN 0 ELSE 1)
                        + 2 * item.task.tries
        /\ item.task.tries = execs[Key(item.task)]
        /\ item.task.tries < max_retry
    /\ \A k \in Keys : fate[k] = "retry" /\ ~Executing(k) => KeyCount(k) = 1

\* a task waiting for its second call, two priorities back
C12_Witness ==
    \E n \in 1..Len(crawlerQ) :
        /\ crawlerQ[n].task.tries = 1
        /\ crawlerQ[n].prior = 2
        /\ crawlerQ[n].task.func = "get_stock"
        /\ fate[Key(crawlerQ[n].task)] = "retry"

\* C13: when the call of a task raises, the crawler goes on to its next get:
\* it does not leave its loop, the registry and assign_tasks are as before,
\* the task's tries is not incremented and the task is put on no queue.
C13_ExceptionInIteration ==
    [][\A i \in Crawlers :
        (pc[i] = "call" /\ fate'[Key(cur[i].task)] = "raised" /\ pc'[i] # "call")
        => /\ pc'[i] = "get"
           /\ other' = other
           /\ other # <<>>
           /\ sched' = sched
           /\ cur'[i].task.tries = cur[i].task.tries
           /\ crawlerQ' = crawlerQ
           /\ writerQ' = writerQ]_vars

\* a crawler back at its get after a call that raised, still registered
C13_Witness ==
    \E i \in Crawlers :
        /\ pc[i] = "get"
        /\ cur[i] # NoTask
        /\ fate[Key(cur[i].task)] = "raised"
        /\ execs[Key(cur[i].task)] = cur[i].task.tries + 1
        /\ other # <<>>
        /\ sched = "running"

SentCount(k) == Count({n \in 1..Len(writerQ) : writerQ[n].save_fp = SavePath(k[2])})

\* C14: a get_stock task that returned a DataFrame, with rows or without, has
\* exactly one result on queues.writer until the writer takes it, and is
\* neither queued nor called again; no stock code ever has two results or two
\* task objects.
C14_TerminalFetch ==
    \A k \in StockKeys :
        /\ made[k] <= 1
        /\ SentCount(k) <= 1
        /\ fate[k] \in {"sent_data", "sent_empty"} =>
              SentCount(k) = 1 /\ ~Queued(k) /\ ~Executing(k)
        /\ fate[k] \in {"emptied", "written", "persist_failed", "writer_raised"} =>
              SentCount(k) = 0 /\ ~Queued(k) /\ ~Executing(k)
        /\ fate[k] \in {"new", "retry", "exhausted", "raised"} => SentCount(k) = 0

\* an empty DataFrame on its way to the writer after a first call that failed
C14_Witness ==
    \E k \in StockKeys :
        /\ fate[k] = "sent_empty"
        /\ execs[k] = 2
        /\ SentCount(k) = 1
        /\ ~Queued(k)

\* the writer takes the oldest result
WriterTakes == writerQ # <<>> /\ writerQ' = Tail(writerQ)

\* C15: when the writer takes a result without rows, total goes down by
\* exactly 1, completed stays, write is not called, and the writer goes on to
\* its next get.
C15_EmptyPayload ==
    [][(WriterTakes /\ Head(writerQ).result = "empty")
        => /\ total' = total - 1
           /\ completed' = completed
           /\ fate'[KeyOfPath(Head(writerQ).save_fp)] = "emptied"
           /\ wpc' = "get"]_vars

\* the writer, running, has taken one empty result out of a total of two
C15_Witness ==
    /\ wpc = "get"
    /\ Count(StocksWithFate("emptied")) = 1
    /\ Discovered = 2
    /\ total = 1
    /\ completed = 0

\* C16: when the writer takes a result with rows, write is called once; when
\* it returns True completed goes up by exactly 1 and total stays; when it
\* returns False neither changes; the result is put back on no queue.
C16_PersistOutcome ==
    [][(WriterTakes /\ Head(writerQ).result # "empty")
        => LET k == KeyOfPath(Head(writerQ).save_fp) IN
           /\ fate'[k] \in {"written", "persist_failed", "writer_raised"}
           /\ total' = total
           /\ fate'[k] = "written" => completed' = completed + 1
           /\ fate'[k] = "persist_failed" => completed' = completed
           /\ crawlerQ' = crawlerQ
           /\ \A n \in 1..Len(writerQ') : writerQ'[n].save_fp # Head(writerQ).save_fp
           /\ wpc' = "get"]_vars

\* one write succeeded and one failed
C16_Witness ==
    /\ Count(StocksWithFate("written")) = 1
    /\ Count(StocksWithFate("persist_failed")) = 1
    /\ completed = 1
    /\ total = 2

\* C17: when a crawler has taken the task of page q >= 1, every stock code
\* of page q - 1 has been put once, none of them waited in the queue at
\* priority 0 at the moment of the get or waits there now, and each of
\* them has been taken for its first call before.
C17_PageLookahead ==
    \A i \in Crawlers :
        (pc[i] = "call" /\ cur[i].task.func = "get_list" /\ cur[i].task.args[1] >= 1) =>
            LET items == PageItems(cur[i].task.args[1] - 1) IN
            \A j \in 1..Len(items) :
                /\ made[StockKey(items[j])] = 1
                /\ \A n \in 1..Len(seen[i]) :
                       Key(seen[i][n].task) = StockKey(items[j])
                           => seen[i][n].prior # ItemPrior
                /\ \A n \in 1..Len(crawlerQ) :
                       Key(crawlerQ[n].task) = StockKey(items[j])
                           => crawlerQ[n].prior # ItemPrior
                /\ \/ execs[StockKey(items[j])] >= 1
                   \/ Executing(StockKey(items[j]))

\* page 1 taken after a page of two stock codes, while one of them waits for
\* its retry
C17_Witness ==
    \E i \in Crawlers :
        /\ pc[i] = "call"
        /\ cur[i].task.func = "get_list"
        /\ cur[i].task.args[1] = 1
        /\ Len(PageItems(0)) = 2
        /\ \E n \in 1..Len(seen[i]) :
               seen[i][n].task.func = "get_stock" /\ seen[i][n].prior > PagePrior

\* the crawlers between their put on the registry and their get from it
Registered == {i \in Crawlers : pc[i] \in {"get", "call", "put", "exit"}}

\* every crawler has returned
CrawlersStopped == \A i \in Crawlers : pc[i] = "stopped"

\* C18: a crawler leaves its loop only from a get that found the queue
\* empty, and takes one id from the registry when it stops, so the registry
\* holds one id for each crawler between start and stop; when all crawlers
\* have stopped the queue is empty, no task is being executed, and every
\* task that was put has been called.
C18_NoStrandedTasks ==
    [][/\ \A i \in Crawlers :
              (pc[i] # "exit" /\ pc'[i] = "exit") => (pc[i] = "get" /\ crawlerQ = <<>>)
       /\ \A i \in Crawlers :
              (pc[i] # "stopped" /\ pc'[i] = "stopped")
                  => (pc[i] = "exit" /\ Len(other') = Len(other) - 1)
       /\ Len(other') = Count(Registered')
       /\ CrawlersStopped' =>
              /\ crawlerQ' = <<>>
              /\ \A k \in Keys : ~Queued(k)' /\ ~Executing(k)'
              /\ \A k \in Keys : made'[k] > 0 => execs'[k] > 0]_vars

\* all crawlers have stopped after both pages and two stock codes, one of
\* them called twice
C18_Witness ==
    /\ CrawlersStopped
    /\ other = <<>>
    /\ \A k \in Keys : made[k] = 1
    /\ \E k \in StockKeys : execs[k] >= 2

\* the crawlers that hold a task: calling it, or putting what it returned
Holders(k) == {i \in Crawlers : pc[i] \in {"call", "put"} /\ Key(cur[i].task) = k}

\* C19: a task is in the queue at most once or held by at most one crawler,
\* never both; a task that was put and has not met its end is in exactly
\* one of these places.
C19_SingleOwnership ==
    \A k \in Keys :
        /\ KeyCount(k) + Count(Holders(k)) <= 1
        /\ (made[k] > 0 /\ fate[k] \in {"new", "retry"})
               => KeyCount(k) + Count(Holders(k)) = 1

\* one stock code called for the second time while the other waits for its
\* retry
C19_Witness ==
    \E k, l \in StockKeys :
        /\ k # l
        /\ execs[k] >= 1 /\ Count(Holders(k)) = 1 /\ KeyCount(k) = 0
        /\ fate[l] = "retry" /\ KeyCount(l) = 1 /\ Count(Holders(l)) = 0

\* the stock codes whose task is in the queue or being called
InFlight == {k \in StockKeys : Queued(k) \/ Executing(k)}

\* C20: in every state 0 <= completed <= total, and total - completed is at
\* least the number of stock codes whose task is queued or being called
\* plus the number of results on the writer's queue.
C20_CounterInvariant ==
    /\ 0 <= completed
    /\ completed <= total
    /\ total - completed >= Count(InFlight) + Len(writerQ)

\* two stock codes counted, one in flight and one result waiting: nothing to
\* spare
C20_Witness ==
    /\ completed = 0
    /\ total = 2
    /\ Count(InFlight) = 1
    /\ Len(writerQ) = 1

=============================================================================
